---- MODULE Spec2Model ----
(***************************************************************************)
(* Eye_Touch: the interaction tests of interaction_test.py                 *)
(* (RegionDwellTest, TargetSelectionTest, InteractionTestManager) as state *)
(* machines.  Time is the value time.time() returns, in whole seconds,     *)
(* observed every ClockStep seconds; a handler runs at one clock instant.  *)
(* A region dict is the record of the one key the tests compare, 'id'.     *)
(***************************************************************************)
EXTENDS Integers, Naturals, Sequences, FiniteSets, TLC

VARIABLES
    clock,          \* the value time.time() returns
    dwell,          \* the RegionDwellTest instance (its fields)
    sel,            \* the TargetSelectionTest instance (its fields)
    test_results,   \* InteractionTestManager.test_results
    run_results,    \* history: results logged since the most recent start_test
    in_since,       \* history: since the most recent start_test of the dwell
                    \* test, the time from which every delivered region was
                    \* the target (None when the last delivery was not)
    stats,          \* what the last get_test_statistics() returned
    csv_rows,       \* the file the last export_results() wrote
    region_manager, \* the RegionManager instance (its fields)
    widget,         \* the RegionGridWidget instance (its fields)
    signals,        \* the signals the last RegionGridWidget handler emitted
    open_region,    \* history: the region of the last region_entered signal
                    \* that no region_exited of the same region followed
    resolved,       \* the last get_region_by_point call and what it returned
    eye_tracker,    \* the EyeTrackingInterface instance (its fields)
    loops,          \* the live _tracking_loop threads: how many are at each
                    \* position of the loop
    control_panel,  \* the ControlPanelWidget instance (its fields)
    status,         \* the message MainWindow reported last
    welcome_window, \* the WelcomeWindow instance (its fields, its timers)
    app,            \* the EyeTouchApp instance (its fields)
    window_closed,  \* history: how often WelcomeWindow emitted window_closed
    main_windows    \* history: how many MainWindow instances were created

mgr_out == <<stats, csv_rows>>
region_vars == <<region_manager, widget, signals, open_region, resolved>>
track_vars == <<eye_tracker, loops, control_panel, status>>
welcome_vars == <<welcome_window, app, window_closed, main_windows>>

vars == <<clock, dwell, sel, test_results, run_results, in_since,
          stats, csv_rows, region_manager, widget, signals, open_region,
          resolved, eye_tracker, loops, control_panel, status,
          welcome_window, app, window_closed, main_windows>>

----------------------------------------------------------------------------
(* Bounds *)

ClockStep == 5          \* seconds between two observations of the clock
MaxClock == 41          \* the clock stops advancing here
MaxResults == 2         \* start_test is not called once the log is this long
NumRegions == 2         \* number of region dicts handed to the tests
MaxTargets == 3         \* num_targets is drawn from 0..MaxTargets
MgrClockStep == 31      \* ClockStep, where both tests run under one manager
MgrMaxClock == 32       \* MaxClock, where both tests run under one manager
MaxScreen == 2          \* screen_width and screen_height are drawn from 1..MaxScreen
MaxRows == 2            \* rows is drawn from 1..MaxRows
MaxCols == 6            \* cols is drawn from 1..MaxCols
MaxHistory == 2         \* region_history holds at most MaxHistory entries
MaxLoops == 2           \* no thread is started while this many loops are live
MaxCalibration == 1     \* calibration_data holds at most this many points

----------------------------------------------------------------------------
(* Values *)

None == -1                          \* Optional[float] None
NoRegion == [none |-> TRUE]         \* Optional[Dict] None
TimeoutSeconds == 30                \* update_progress: "> 30"
DefaultDwellTime == 2               \* RegionDwellTest.__init__: dwell_time = 2.0
DwellTimes == {DefaultDwellTime, 2 * ClockStep}

Region(i) == [id |-> i]
regions == [i \in 1..NumRegions |-> Region(i - 1)]
RegionValues == {regions[i] : i \in 1..NumRegions}

\* Python truthiness of an Optional[float]
Truthy(x) == x # None /\ x # 0

Min(a, b) == IF a <= b THEN a ELSE b

REGION_DWELL == "REGION_DWELL"
TARGET_SELECTION == "TARGET_SELECTION"

\* a float that is a ratio of two small integers, in lowest terms
RECURSIVE Gcd(_, _)
Gcd(a, b) == IF b = 0 THEN a ELSE Gcd(b, a % b)
Ratio(n, d) == [num |-> n \div Gcd(n, d), den |-> d \div Gcd(n, d)]
One == Ratio(1, 1)
Zero == Ratio(0, 1)

\* a list object held by a TestResult: a list of its own, or the very list
\* object TargetSelectionTest.selected_regions
OwnList(s) == [ref |-> "own", val |-> s]
SelectedRegionsList == [ref |-> "selected_regions", val |-> <<>>]

TestResult(tt, success, duration, accuracy, target, actual, ts) ==
    [test_type |-> tt, success |-> success, duration |-> duration,
     accuracy |-> accuracy, target_region |-> target,
     actual_regions |-> actual, timestamp |-> ts]

\* the contents of a logged result's actual_regions list
ActualRegions(r) ==
    IF r.actual_regions.ref = "selected_regions"
    THEN sel.selected_regions
    ELSE r.actual_regions.val

----------------------------------------------------------------------------
(* InteractionTestManager *)

\* a manager that inserts at the front of the log
on_test_completed_Prepend(log, emitted) == emitted \o log

\* on_test_completed, for the results a handler emitted in order
on_test_completed(log, emitted) == log \o emitted

\* TestType.value: the Chinese label of the kind, written here in pinyin
TestTypeValue(tt) ==
    IF tt = REGION_DWELL THEN "quyu tingliu ceshi" ELSE "mubiao xuanze ceshi"

\* sum(1 for r in self.test_results if r.success), counting everything
SuccessfulTests_All(log) == Len(log)

\* sum(1 for r in self.test_results if r.success)
SuccessfulTests(log) ==
    Cardinality({i \in 1..Len(log) : log[i].success})

RatAdd(a, b) == Ratio(a.num * b.den + b.num * a.den, a.den * b.den)
RatDivInt(a, n) == Ratio(a.num, a.den * n)

\* sum(r.accuracy for r in self.test_results)
RECURSIVE SumAccuracy(_)
SumAccuracy(log) ==
    IF log = <<>> THEN Zero ELSE RatAdd(Head(log).accuracy, SumAccuracy(Tail(log)))

\* sum(r.duration for r in self.test_results)
RECURSIVE SumDuration(_)
SumDuration(log) ==
    IF log = <<>> THEN 0 ELSE Head(log).duration + SumDuration(Tail(log))

\* no get_test_statistics() call has returned yet
NoStats == [returned |-> FALSE]

\* the dict {} get_test_statistics returns for an empty log
EmptyDict == [returned |-> TRUE, keys |-> {}]

StatisticsKeys ==
    {"total_tests", "success_rate", "average_accuracy", "average_duration",
     "results"}

\* get_test_statistics: the dict it returns; 'results' is the list object
\* test_results itself
TestStatistics(log) ==
    IF log = <<>> THEN EmptyDict
    ELSE LET total_tests == Len(log) IN
         [returned |-> TRUE, keys |-> StatisticsKeys,
          total_tests |-> total_tests,
          success_rate |-> Ratio(SuccessfulTests(log), total_tests),
          average_accuracy |-> RatDivInt(SumAccuracy(log), total_tests),
          average_duration |-> Ratio(SumDuration(log), total_tests),
          results |-> "test_results"]

get_test_statistics ==
    /\ stats' = TestStatistics(test_results)
    /\ UNCHANGED <<clock, dwell, sel, test_results, run_results, in_since,
                   csv_rows, region_vars, track_vars, welcome_vars>>

\* no export_results() call has written a file yet
NoFile == [written |-> FALSE]

\* str(b) of a bool, as csv.DictWriter renders the cell
PyStrBool(b) == IF b THEN "True" ELSE "False"

\* str(x) of a float, as csv.DictWriter renders the cell: the shortest
\* decimal text that reads back as x
PyStrFloat(x) == [repr |-> x]

Fieldnames == <<"test_type", "success", "duration", "accuracy", "timestamp">>

\* export_results: the row written for one result
CsvRow(result) ==
    [test_type |-> TestTypeValue(result.test_type),
     success |-> PyStrBool(result.success),
     duration |-> PyStrFloat(result.duration),
     accuracy |-> PyStrFloat(result.accuracy),
     timestamp |-> PyStrFloat(result.timestamp)]

\* export_results: the file it writes
CsvFile(log) ==
    [written |-> TRUE, header |-> Fieldnames,
     rows |-> [i \in 1..Len(log) |-> CsvRow(log[i])]]

export_results ==
    /\ csv_rows' = CsvFile(test_results)
    /\ UNCHANGED <<clock, dwell, sel, test_results, run_results, in_since,
                   stats, region_vars, track_vars, welcome_vars>>

----------------------------------------------------------------------------
(* RegionDwellTest *)

DwellInit(target, dt) ==
    [target_region |-> target, dwell_time |-> dt, start_time |-> None,
     dwell_start_time |-> None, is_in_target |-> FALSE, test_active |-> FALSE]

\* update_gaze_point: in_target
InTarget(current_region, target) ==
    current_region # NoRegion /\ current_region.id = target.id

\* a dwell test that needs more than dwell_time
DwellReached_Strict(elapsed, dt) == elapsed > dt

\* update_progress: progress >= 1.0, progress = min(elapsed / dwell_time, 1.0)
DwellReached(elapsed, dt) == elapsed >= dt

\* a timeout test that fires at exactly 30 seconds
TimedOut_Inclusive(now, start) ==
    Truthy(start) /\ (now - start) >= TimeoutSeconds

\* a timeout test that never fires
TimedOut_Never(now, start) == Truthy(start) /\ (now - start) > MaxClock

\* update_progress: the timeout test
TimedOut(now, start) == Truthy(start) /\ (now - start) > TimeoutSeconds

\* a complete_test that reports the target as visited on failure too
DwellResult_AlwaysVisited(d, success, now) ==
    TestResult(REGION_DWELL, success,
               IF Truthy(d.start_time) THEN now - d.start_time ELSE 0,
               IF success THEN One ELSE Zero,
               d.target_region,
               OwnList(<<d.target_region>>),
               now)

\* complete_test(success): the result it emits
DwellResult(d, success, now) ==
    TestResult(REGION_DWELL, success,
               IF Truthy(d.start_time) THEN now - d.start_time ELSE 0,
               IF success THEN One ELSE Zero,
               d.target_region,
               OwnList(IF success THEN <<d.target_region>> ELSE <<>>),
               now)

\* start_test
DwellStartFields(d, now) ==
    [d EXCEPT !.test_active = TRUE, !.start_time = now]

dwell_start_test ==
    /\ Len(test_results) < MaxResults
    /\ dwell' = DwellStartFields(dwell, clock)
    /\ run_results' = 0
    /\ in_since' = None
    /\ UNCHANGED <<clock, sel, test_results,
                   mgr_out, region_vars, track_vars, welcome_vars>>

\* stop_test
dwell_stop_test ==
    /\ dwell' = [dwell EXCEPT !.test_active = FALSE]
    /\ UNCHANGED <<clock, sel, test_results, run_results, in_since,
                   mgr_out, region_vars, track_vars, welcome_vars>>

\* an update_gaze_point without the test_active guard
DwellGaze_NoGuard(d, current_region, now) ==
    IF InTarget(current_region, d.target_region) /\ ~d.is_in_target
    THEN [d EXCEPT !.is_in_target = TRUE, !.dwell_start_time = now]
    ELSE IF ~InTarget(current_region, d.target_region) /\ d.is_in_target
         THEN [d EXCEPT !.is_in_target = FALSE, !.dwell_start_time = None]
    ELSE d

\* update_gaze_point(gaze_point, current_region)
DwellGaze(d, current_region, now) ==
    IF ~d.test_active THEN d
    ELSE IF InTarget(current_region, d.target_region) /\ ~d.is_in_target
         THEN [d EXCEPT !.is_in_target = TRUE, !.dwell_start_time = now]
    ELSE IF ~InTarget(current_region, d.target_region) /\ d.is_in_target
         THEN [d EXCEPT !.is_in_target = FALSE, !.dwell_start_time = None]
    ELSE d

dwell_update_gaze_point ==
    \E current_region \in RegionValues \cup {NoRegion} :
        /\ dwell' = DwellGaze(dwell, current_region, clock)
        /\ in_since' = IF InTarget(current_region, dwell.target_region)
                       THEN (IF in_since = None THEN clock ELSE in_since)
                       ELSE None
        /\ UNCHANGED <<clock, sel, test_results, run_results,
                       mgr_out, region_vars, track_vars, welcome_vars>>

\* an update_progress without the test_active guard
DwellProgressEmits_NoGuard(d, now) ==
    (IF d.is_in_target /\ Truthy(d.dwell_start_time)
        /\ DwellReached(now - d.dwell_start_time, d.dwell_time)
     THEN <<DwellResult(d, TRUE, now)>> ELSE <<>>)
    \o
    (IF TimedOut(now, d.start_time)
     THEN <<DwellResult(d, FALSE, now)>> ELSE <<>>)

\* update_progress: the results it emits, in order.  complete_test(True) does
\* not return from update_progress, so the timeout test follows it.
DwellProgressEmits(d, now) ==
    IF ~d.test_active THEN <<>>
    ELSE (IF d.is_in_target /\ Truthy(d.dwell_start_time)
             /\ DwellReached(now - d.dwell_start_time, d.dwell_time)
          THEN <<DwellResult(d, TRUE, now)>> ELSE <<>>)
         \o
         (IF TimedOut(now, d.start_time)
          THEN <<DwellResult(d, FALSE, now)>> ELSE <<>>)

dwell_update_progress ==
    LET emitted == DwellProgressEmits(dwell, clock) IN
    /\ dwell' = IF emitted # <<>>
                THEN [dwell EXCEPT !.test_active = FALSE]
                ELSE dwell
    /\ test_results' = on_test_completed(test_results, emitted)
    /\ run_results' = run_results + Len(emitted)
    /\ UNCHANGED <<clock, sel, in_since,
                   mgr_out, region_vars, track_vars, welcome_vars>>

----------------------------------------------------------------------------
(* The clock *)

Advance ==
    /\ clock < MaxClock
    /\ clock' = clock + ClockStep
    /\ UNCHANGED <<dwell, sel, test_results, run_results, in_since,
                   mgr_out, region_vars, track_vars, welcome_vars>>

----------------------------------------------------------------------------
(* TargetSelectionTest *)

\* injective maps 1..k -> 1..n: the positions random.sample can draw
Injections(k, n) ==
    {f \in [1..k -> 1..n] : \A i, j \in 1..k : i # j => f[i] # f[j]}

\* a draw with replacement (random.choices)
Sample_WithReplacement(population, k) ==
    {[i \in 1..k |-> population[f[i]]] : f \in [1..k -> 1..Len(population)]}

\* random.sample(population, k): every outcome it can produce
Sample(population, k) ==
    {[i \in 1..k |-> population[f[i]]] : f \in Injections(k, Len(population))}

\* a generator that repeats the first region
generate_target_sequence_Repeat(rs, num_targets) ==
    {[i \in 1..Min(num_targets, Len(rs)) |-> rs[1]]}

\* generate_target_sequence: the sequences it can produce
generate_target_sequence(rs, num_targets) ==
    Sample(rs, Min(num_targets, Len(rs)))

\* __init__, with the target sequence generate_target_sequence produced
SelInit(rs, num_targets, target_sequence) ==
    [regions |-> rs, num_targets |-> num_targets, current_target_index |-> 0,
     target_sequence |-> target_sequence, selected_regions |-> <<>>,
     test_active |-> FALSE, start_time |-> None]

\* a TargetSelectionTest that no operation acts on
SelIdle == SelInit(<<>>, 0, <<>>)

\* update_gaze_point: the early return
SelIgnores(t) ==
    ~t.test_active \/ t.current_target_index >= Len(t.target_sequence)

\* a match test that accepts any region at or past the target
SelMatches_AtLeast(current_region, target_region) ==
    current_region.id >= target_region.id

\* update_gaze_point: current_region['id'] == target_region['id']
SelMatches(current_region, target_region) ==
    current_region.id = target_region.id

\* a completion test that is off by one
AllTargetsDone_OffByOne(index, target_sequence) ==
    index > Len(target_sequence)

\* update_gaze_point: "all targets done"
AllTargetsDone(index, target_sequence) == index >= Len(target_sequence)

\* complete_test: accuracy
SelAccuracy(selected_regions, target_sequence) ==
    Ratio(Len(selected_regions), Len(target_sequence))

\* complete_test: the result it emits; actual_regions is the list object
\* selected_regions itself
SelResult(t, now) ==
    LET accuracy == SelAccuracy(t.selected_regions, t.target_sequence) IN
    TestResult(TARGET_SELECTION, accuracy = One,
               IF Truthy(t.start_time) THEN now - t.start_time ELSE 0,
               accuracy, NoRegion, SelectedRegionsList, now)

\* a start_test that keeps the progress of the earlier run
SelStartFields_KeepProgress(t, now) ==
    [t EXCEPT !.test_active = TRUE, !.start_time = now]

\* start_test
SelStartFields(t, now) ==
    [t EXCEPT !.test_active = TRUE, !.start_time = now,
              !.current_target_index = 0, !.selected_regions = <<>>]

sel_start_test ==
    /\ Len(test_results) < MaxResults
    /\ sel' = SelStartFields(sel, clock)
    /\ run_results' = 0
    /\ UNCHANGED <<clock, dwell, test_results, in_since,
                   mgr_out, region_vars, track_vars, welcome_vars>>

\* stop_test
sel_stop_test ==
    /\ sel' = [sel EXCEPT !.test_active = FALSE]
    /\ UNCHANGED <<clock, dwell, test_results, run_results, in_since,
                   mgr_out, region_vars, track_vars, welcome_vars>>

\* an update_gaze_point that increments without appending
SelAdvanced_NoAppend(t, current_region) ==
    [t EXCEPT !.current_target_index = @ + 1]

\* update_gaze_point: the fields after the append and the increment
SelAdvanced(t, current_region) ==
    [t EXCEPT !.selected_regions = Append(@, current_region),
              !.current_target_index = @ + 1]

\* update_gaze_point: the fields it leaves
SelGaze(t, current_region) ==
    IF SelIgnores(t) THEN t
    ELSE IF current_region # NoRegion
            /\ SelMatches(current_region,
                          t.target_sequence[t.current_target_index + 1])
         THEN LET a == SelAdvanced(t, current_region) IN
              IF AllTargetsDone(a.current_target_index, a.target_sequence)
              THEN [a EXCEPT !.test_active = FALSE]
              ELSE a
    ELSE t

\* update_gaze_point: the results it emits
SelGazeEmits(t, current_region, now) ==
    IF SelIgnores(t) THEN <<>>
    ELSE IF current_region # NoRegion
            /\ SelMatches(current_region,
                          t.target_sequence[t.current_target_index + 1])
         THEN LET a == SelAdvanced(t, current_region) IN
              IF AllTargetsDone(a.current_target_index, a.target_sequence)
              THEN <<SelResult(a, now)>>
              ELSE <<>>
    ELSE <<>>

\* update_gaze_point(gaze_point, current_region)
SelGazeStep(current_region) ==
    LET emitted == SelGazeEmits(sel, current_region, clock) IN
    /\ sel' = SelGaze(sel, current_region)
    /\ test_results' = on_test_completed(test_results, emitted)
    /\ run_results' = run_results + Len(emitted)
    /\ UNCHANGED <<clock, dwell, in_since,
                   mgr_out, region_vars, track_vars, welcome_vars>>

sel_update_gaze_point ==
    \E current_region \in RegionValues \cup {NoRegion} :
        SelGazeStep(current_region)

----------------------------------------------------------------------------
(* Python floats (IEEE 754 binary64, round to nearest, ties to even).  A     *)
(* float is a sign, a significand as a sequence of bits (most significant   *)
(* first, no leading zero, <<>> for 0) and an exponent: the value is        *)
(* significand * 2^exp.  Only values far from overflow and underflow occur. *)

Precision == 53

Float(neg, bits, exp) == [neg |-> neg, bits |-> bits, exp |-> exp]

Zeros(n) == [i \in 1..n |-> 0]

\* the bit sequence without its leading zeros
StripZeros(bits) ==
    IF \A i \in 1..Len(bits) : bits[i] = 0 THEN <<>>
    ELSE LET first == CHOOSE i \in 1..Len(bits) :
                          bits[i] = 1 /\ \A j \in 1..(i - 1) : bits[j] = 0
         IN SubSeq(bits, first, Len(bits))

\* the bits of a natural number
RECURSIVE NatBits(_)
NatBits(n) == IF n = 0 THEN <<>> ELSE Append(NatBits(n \div 2), n % 2)

PadLeft(bits, n) == Zeros(n - Len(bits)) \o bits

\* bit sequences are added and multiplied in limbs of LimbBits bits
LimbBits == 12
LimbBase == 2 ^ LimbBits

\* the number of limbs that hold n bits
LimbCount(n) == (n + LimbBits - 1) \div LimbBits

\* the value of the limb of bits (of a length that is a multiple of
\* LimbBits) that ends at bit i
RECURSIVE LimbValue(_, _, _)
LimbValue(bits, i, k) ==
    IF k = 0 THEN 0 ELSE bits[i] + 2 * LimbValue(bits, i - 1, k - 1)

\* the limbs of a bit sequence, most significant first
Limbs(bits, count) ==
    LET padded == PadLeft(bits, count * LimbBits) IN
    [k \in 1..count |-> LimbValue(padded, k * LimbBits, LimbBits)]

\* the bits of a sequence of limbs
LimbsToBits(limbs) ==
    [i \in 1..(Len(limbs) * LimbBits) |->
        (limbs[((i - 1) \div LimbBits) + 1]
            \div 2 ^ (LimbBits - 1 - ((i - 1) % LimbBits))) % 2]

\* limbs k * a + b from limb i down, with one more limb in front for the
\* carry
RECURSIVE MulAddFrom(_, _, _, _, _)
MulAddFrom(k, a, b, i, carry) ==
    IF i = 0 THEN <<carry>>
    ELSE LET t == k * a[i] + b[i] + carry IN
         Append(MulAddFrom(k, a, b, i - 1, t \div LimbBase), t % LimbBase)

\* k * a + b of bit sequences, k a small natural number
MulAddBits(k, a, b) ==
    LET n == IF Len(a) >= Len(b) THEN Len(a) ELSE Len(b)
        count == LimbCount(n)
    IN StripZeros(LimbsToBits(
           MulAddFrom(k, Limbs(a, count), Limbs(b, count), count, 0)))

AddBits(a, b) == MulAddBits(1, a, b)

\* k times the bit sequence
TimesBits(k, bits) == MulAddBits(k, bits, <<>>)

\* rounding of bits * 2^exp (+ something smaller than the last bit when
\* sticky) to Precision bits, ties to even
RoundBits(bits, exp, sticky) ==
    IF Len(bits) <= Precision THEN Float(FALSE, bits, exp)
    ELSE LET kept == SubSeq(bits, 1, Precision)
             guard == bits[Precision + 1]
             rest == \E i \in (Precision + 2)..Len(bits) : bits[i] = 1
             up == guard = 1 /\ (rest \/ sticky \/ kept[Precision] = 1)
         IN Float(FALSE, IF up THEN AddBits(kept, <<1>>) ELSE kept,
                  exp + (Len(bits) - Precision))

\* float(n) of a small int
FromInt(n) ==
    IF n < 0 THEN Float(TRUE, NatBits(-n), 0) ELSE Float(FALSE, NatBits(n), 0)

\* 2^n mod b
RECURSIVE Pow2Mod(_, _)
Pow2Mod(n, b) ==
    IF n = 0 THEN 1 % b
    ELSE IF n % 2 = 0
         THEN LET h == Pow2Mod(n \div 2, b) IN (h * h) % b
         ELSE (2 * Pow2Mod(n - 1, b)) % b

\* the remainder of r * 2^i by b
RemAfter(r, b, i) == (r * Pow2Mod(i, b)) % b

\* bit i after the binary point of r / b, for 0 <= r < b
FracBit(r, b, i) == (2 * RemAfter(r, b, i - 1)) \div b

\* the zero bits of r / b right after the binary point, for 0 < r < b
LeadingZeros(r, b) ==
    CHOOSE z \in 0..b : FracBit(r, b, z + 1) = 1
                        /\ \A i \in 1..z : FracBit(r, b, i) = 0

\* a / b of two positive ints (true division): the integer part and as many
\* bits after the binary point as give Precision + 1 significant bits
FDivInt(a, b) ==
    LET whole == NatBits(a \div b)
        r == a % b
        count == IF r = 0 THEN 0
                 ELSE IF whole = <<>>
                      THEN LeadingZeros(r, b) + Precision + 1
                      ELSE Precision + 1
        bits == StripZeros(whole \o [i \in 1..count |-> FracBit(r, b, i)])
    IN RoundBits(bits, -count, r # 0 /\ RemAfter(r, b, count) # 0)

\* k * f of an int k >= 0 and a float f >= 0
FMulInt(k, f) == RoundBits(TimesBits(k, f.bits), f.exp, FALSE)

\* the bits of f at the exponent exp <= f.exp
AtExp(f, exp) == IF f.bits = <<>> THEN <<>> ELSE f.bits \o Zeros(f.exp - exp)

MinExp(f, g) == IF f.exp <= g.exp THEN f.exp ELSE g.exp

\* f + g of two floats >= 0
FAdd(f, g) ==
    LET exp == MinExp(f, g) IN
    RoundBits(AddBits(AtExp(f, exp), AtExp(g, exp)), exp, FALSE)

\* a <= b of two sequences of limbs of the same length, from limb i on
RECURSIVE LimbsLeq(_, _, _)
LimbsLeq(a, b, i) ==
    IF i > Len(a) THEN TRUE
    ELSE IF a[i] # b[i] THEN a[i] < b[i]
    ELSE LimbsLeq(a, b, i + 1)

\* a <= b of two bit sequences, as numbers
BitsLeq(a, b) ==
    LET n == IF Len(a) >= Len(b) THEN Len(a) ELSE Len(b)
        count == LimbCount(n)
    IN LimbsLeq(Limbs(a, count), Limbs(b, count), 1)

\* |f| <= |g|
MagLeq(f, g) ==
    LET exp == MinExp(f, g) IN BitsLeq(AtExp(f, exp), AtExp(g, exp))

\* f <= g
FLeq(f, g) ==
    IF f.neg /\ f.bits # <<>>
    THEN (IF g.neg /\ g.bits # <<>> THEN MagLeq(g, f) ELSE TRUE)
    ELSE (IF g.neg /\ g.bits # <<>> THEN FALSE ELSE MagLeq(f, g))

----------------------------------------------------------------------------
(* RegionManager *)

\* _create_regions: the region dict of (row, col); 'name', 'center_x' and
\* 'center_y' are read by no operation here
CreateRegion(row, col, cols, region_width, region_height) ==
    [id |-> row * cols + col,
     x |-> FMulInt(col, region_width),
     y |-> FMulInt(row, region_height),
     width |-> region_width,
     height |-> region_height]

\* _create_regions: the list in creation order (row by row)
create_regions(screen_width, screen_height, rows, cols) ==
    LET region_width == FDivInt(screen_width, cols)
        region_height == FDivInt(screen_height, rows)
    IN [k \in 1..(rows * cols) |->
          CreateRegion((k - 1) \div cols, (k - 1) % cols, cols,
                       region_width, region_height)]

\* __init__
RegionManagerInit(screen_width, screen_height, rows, cols) ==
    [screen_width |-> screen_width, screen_height |-> screen_height,
     rows |-> rows, cols |-> cols,
     regions |-> create_regions(screen_width, screen_height, rows, cols),
     current_region |-> NoRegion,
     region_history |-> <<>>]

\* get_region_by_point: the test of one region
RegionContains(region, x, y) ==
    /\ FLeq(region.x, x) /\ FLeq(x, FAdd(region.x, region.width))
    /\ FLeq(region.y, y) /\ FLeq(y, FAdd(region.y, region.height))

\* a lookup that keeps the last region that contains the point
RECURSIVE get_region_by_point_Last(_, _, _)
get_region_by_point_Last(rs, x, y) ==
    IF rs = <<>> THEN NoRegion
    ELSE IF RegionContains(rs[Len(rs)], x, y) THEN rs[Len(rs)]
    ELSE get_region_by_point_Last(SubSeq(rs, 1, Len(rs) - 1), x, y)

\* get_region_by_point(x, y) over the list of regions
RECURSIVE get_region_by_point(_, _, _)
get_region_by_point(rs, x, y) ==
    IF rs = <<>> THEN NoRegion
    ELSE IF RegionContains(Head(rs), x, y) THEN Head(rs)
    ELSE get_region_by_point(Tail(rs), x, y)

\* the coordinates a point is drawn from
Coordinates == (-1)..(MaxScreen + 1)

\* a point (x, y) that get_region_by_point was not called with yet
NoCall(x, y) == [called |-> FALSE, x |-> x, y |-> y, result |-> NoRegion]

\* the call get_region_by_point(x, y) and what it returns
resolve_point ==
    /\ ~ resolved.called
    /\ resolved' =
         [resolved EXCEPT
            !.called = TRUE,
            !.result = get_region_by_point(region_manager.regions,
                                           FromInt(resolved.x),
                                           FromInt(resolved.y))]
    /\ UNCHANGED <<clock, dwell, sel, test_results, run_results, in_since,
                   mgr_out, region_manager, widget, signals, open_region,
                   track_vars, welcome_vars>>

\* the grid of the RegionManager that tracks the current region: rows = cols
\* as in MainWindow
GridRegions == create_regions(MaxScreen, MaxScreen, MaxRows, MaxRows)

\* get_region_by_point(x, y) over GridRegions for every point of Coordinates
ResolveTable ==
    [x \in Coordinates, y \in Coordinates |->
        get_region_by_point(GridRegions, FromInt(x), FromInt(y))]

\* an update that records every call
update_current_region_Always(rm, x, y, now) ==
    LET new_region == ResolveTable[x, y] IN
    [rm EXCEPT
       !.current_region = new_region,
       !.region_history =
           Append(@, [region |-> new_region, timestamp |-> now])]

\* an update that appends the entry and keeps the current region
update_current_region_KeepCurrent(rm, x, y, now) ==
    LET new_region == ResolveTable[x, y] IN
    IF new_region # rm.current_region
    THEN [rm EXCEPT
            !.region_history =
                Append(@, [region |-> new_region, timestamp |-> now])]
    ELSE rm

\* update_current_region(x, y) at the time now, on a RegionManager whose
\* regions are GridRegions
update_current_region(rm, x, y, now) ==
    LET new_region == ResolveTable[x, y] IN
    IF new_region # rm.current_region
    THEN [rm EXCEPT
            !.current_region = new_region,
            !.region_history =
                Append(@, [region |-> new_region, timestamp |-> now])]
    ELSE rm

----------------------------------------------------------------------------
(* RegionGridWidget *)

\* Optional[GazePoint] None
NoGazePoint == [none |-> TRUE]

\* GazePoint(screen_x, screen_y, confidence, timestamp); 'confidence' is the
\* same in every sample here
GazePoint(screen_x, screen_y, timestamp) ==
    [screen_x |-> screen_x, screen_y |-> screen_y, timestamp |-> timestamp]

\* __init__
WidgetInit == [current_gaze_point |-> NoGazePoint]

region_exited(region) == [signal |-> "region_exited", region |-> region]
region_entered(region) == [signal |-> "region_entered", region |-> region]

\* signals that announce the entered region before the exited one
RegionSignals_EnterFirst(old_region, new_region) ==
    IF old_region # new_region
    THEN (IF new_region # NoRegion THEN <<region_entered(new_region)>>
          ELSE <<>>)
         \o (IF old_region # NoRegion THEN <<region_exited(old_region)>>
             ELSE <<>>)
    ELSE <<>>

\* update_gaze_point: the signals emitted for a change from old_region to
\* new_region
RegionSignals(old_region, new_region) ==
    IF old_region # new_region
    THEN (IF old_region # NoRegion THEN <<region_exited(old_region)>>
          ELSE <<>>)
         \o (IF new_region # NoRegion THEN <<region_entered(new_region)>>
             ELSE <<>>)
    ELSE <<>>

\* the region a receiver of the signals is in after it got the emitted ones,
\* when it was in the region open before
RECURSIVE AfterSignals(_, _)
AfterSignals(open, emitted) ==
    IF emitted = <<>> THEN open
    ELSE LET s == Head(emitted) IN
         AfterSignals(IF s.signal = "region_entered" THEN s.region
                      ELSE IF s.region = open THEN NoRegion
                      ELSE open,
                      Tail(emitted))

\* update_gaze_point(gaze_point); signals is what this call emitted
WidgetGazeStep(gaze_point) ==
    IF gaze_point # widget.current_gaze_point
    THEN /\ widget' = [widget EXCEPT !.current_gaze_point = gaze_point]
         /\ IF gaze_point # NoGazePoint
            THEN LET old_region == region_manager.current_region
                     updated == update_current_region(
                                    region_manager, gaze_point.screen_x,
                                    gaze_point.screen_y, clock)
                     new_region == updated.current_region
                 IN /\ Len(updated.region_history) <= MaxHistory
                    /\ region_manager' = updated
                    /\ signals' = RegionSignals(old_region, new_region)
            ELSE /\ region_manager' = region_manager
                 /\ signals' = <<>>
    ELSE /\ signals' = <<>>
         /\ UNCHANGED <<widget, region_manager>>

\* update_display: the widget is given a fresh sample, no sample, or the
\* sample it was given last
widget_update_gaze_point ==
    /\ \/ \E x, y \in Coordinates : WidgetGazeStep(GazePoint(x, y, clock))
       \/ WidgetGazeStep(NoGazePoint)
       \/ WidgetGazeStep(widget.current_gaze_point)
    /\ open_region' = AfterSignals(open_region, signals')
    /\ UNCHANGED <<clock, dwell, sel, test_results, run_results, in_since,
                   mgr_out, resolved, track_vars, welcome_vars>>

----------------------------------------------------------------------------
(* EyeTrackingInterface, its _tracking_loop threads, and the start and stop   *)
(* requests of ControlPanelWidget and MainWindow.  A cv2.VideoCapture is the *)
(* record of whether it is opened.  A thread is at the while test ("while"), *)
(* in self.cap.read() ("read") or in time.sleep ("sleep"); "ended" is a      *)
(* thread that is not started or has returned.  A frame, and the gaze point  *)
(* estimated from it, is the number of the thread that read it.              *)

\* self.cap = None
NoCap == [none |-> TRUE]

\* a cv2.VideoCapture object
VideoCapture(opened) == [opened |-> opened]

\* no frame, no gaze point
NoFrame == 0

\* __init__; calibration_data is the number of its points
TrackerInit ==
    [cap |-> NoCap, is_running |-> FALSE, current_frame |-> NoFrame,
     current_gaze_point |-> NoFrame, calibration_data |-> 0]

\* what cv2.VideoCapture(camera_id) can do: give an opened capture, give one
\* that is not opened, or raise
CameraOutcomes == {"opened", "not_opened", "raised"}

\* initialize_camera: the value it returns
initialize_camera_ok(outcome) == outcome = "opened"

\* initialize_camera: the fields it leaves
initialize_camera(tr, outcome) ==
    IF outcome = "raised" THEN tr
    ELSE [tr EXCEPT !.cap = VideoCapture(outcome = "opened")]

\* EyeTrackingInterface.start_tracking: the fields it leaves (it also starts
\* a thread)
tracker_start_tracking(tr) == [tr EXCEPT !.is_running = TRUE]

\* EyeTrackingInterface.stop_tracking
tracker_stop_tracking(tr) ==
    [tr EXCEPT !.is_running = FALSE,
               !.cap = IF tr.cap # NoCap THEN VideoCapture(FALSE) ELSE @]

Threads == 1..MaxLoops
NoLoops == [i \in Threads |-> "ended"]
LiveLoops == {i \in Threads : loops[i] # "ended"}

\* threading.Thread(target=self._tracking_loop).start(): the threads after it
StartLoop ==
    LET i == CHOOSE i \in Threads : loops[i] = "ended" IN
    [loops EXCEPT ![i] = "while"]

\* a MainWindow.start_tracking that does not look at initialize_camera's
\* result
MainStartsTracking_Unchecked(outcome) == TRUE

\* MainWindow.start_tracking: `if self.eye_tracker.initialize_camera():`
MainStartsTracking(outcome) == initialize_camera_ok(outcome)

\* MainWindow.start_tracking, for what cv2.VideoCapture does
main_start_tracking(outcome) ==
    LET initialized == initialize_camera(eye_tracker, outcome) IN
    IF MainStartsTracking(outcome)
    THEN /\ eye_tracker' = tracker_start_tracking(initialized)
         /\ loops' = StartLoop
         /\ status' = "started"
    ELSE /\ eye_tracker' = initialized
         /\ loops' = loops
         /\ status' = "init_failed"

\* MainWindow.stop_tracking
main_stop_tracking ==
    /\ eye_tracker' = tracker_stop_tracking(eye_tracker)
    /\ loops' = loops
    /\ status' = "stopped"

\* ControlPanelWidget.__init__
ControlPanelInit == [is_tracking |-> FALSE]

\* ControlPanelWidget.toggle_tracking: a click on the tracking button; the
\* signal it emits runs the connected MainWindow slot before it returns
toggle_tracking ==
    /\ IF control_panel.is_tracking
       THEN /\ main_stop_tracking
            /\ control_panel' = [control_panel EXCEPT !.is_tracking = FALSE]
       ELSE /\ Cardinality(LiveLoops) < MaxLoops
            /\ \E outcome \in CameraOutcomes : main_start_tracking(outcome)
            /\ control_panel' = [control_panel EXCEPT !.is_tracking = TRUE]
    /\ UNCHANGED <<clock, dwell, sel, test_results, run_results, in_since,
                   mgr_out, welcome_vars, region_vars>>

\* add_calibration_point
add_calibration_point ==
    /\ eye_tracker.calibration_data < MaxCalibration
    /\ eye_tracker' = [eye_tracker EXCEPT !.calibration_data = @ + 1]
    /\ UNCHANGED <<clock, dwell, sel, test_results, run_results, in_since,
                   mgr_out, welcome_vars, region_vars, loops, control_panel, status>>

\* MainWindow.clear_calibration
clear_calibration ==
    /\ eye_tracker' = [eye_tracker EXCEPT !.calibration_data = 0]
    /\ status' = "calibration_cleared"
    /\ UNCHANGED <<clock, dwell, sel, test_results, run_results, in_since,
                   mgr_out, welcome_vars, region_vars, loops, control_panel>>

\* _tracking_loop: `while self.is_running and self.cap:`; the thread returns
\* when the test fails
loop_while ==
    \E i \in Threads :
        /\ loops[i] = "while"
        /\ loops' = [loops EXCEPT ![i] =
                        IF eye_tracker.is_running /\ eye_tracker.cap # NoCap
                        THEN "read" ELSE "ended"]
        /\ UNCHANGED <<clock, dwell, sel, test_results, run_results,
                       in_since, mgr_out, welcome_vars, region_vars, eye_tracker,
                       control_panel, status>>

\* _tracking_loop: `ret, frame = self.cap.read()` and what follows it.
\* Without a frame the loop continues at the while test; with one it stores
\* the frame, stores the gaze point estimated from it when there is
\* calibration data, and sleeps.  A capture that is not opened gives no frame,
\* an opened one may give none.
loop_read ==
    \E i \in Threads, ret \in BOOLEAN :
        /\ loops[i] = "read"
        /\ ret => eye_tracker.cap.opened
        /\ loops' = [loops EXCEPT ![i] = IF ret THEN "sleep" ELSE "while"]
        /\ eye_tracker' =
             IF ret
             THEN [eye_tracker EXCEPT
                     !.current_frame = i,
                     !.current_gaze_point =
                         IF eye_tracker.calibration_data > 0 THEN i ELSE @]
             ELSE eye_tracker
        /\ UNCHANGED <<clock, dwell, sel, test_results, run_results,
                       in_since, mgr_out, welcome_vars, region_vars, control_panel, status>>

\* _tracking_loop: time.sleep(1/30) returns
loop_wake ==
    \E i \in Threads :
        /\ loops[i] = "sleep"
        /\ loops' = [loops EXCEPT ![i] = "while"]
        /\ UNCHANGED <<clock, dwell, sel, test_results, run_results,
                       in_since, mgr_out, welcome_vars, region_vars, eye_tracker,
                       control_panel, status>>

----------------------------------------------------------------------------
(* WelcomeWindow of welcome_window.py and EyeTouchApp of app.py.  A slot     *)
(* connected to a signal runs inside emit().  A QTimer.singleShot call       *)
(* leaves a pending timer that calls its slot later, once, as long as the    *)
(* window it belongs to exists.  deleteLater() leaves a pending deletion     *)
(* that the event loop carries out when it handles its posted events;        *)
(* timers that are due are served in one pass of the event loop, and the     *)
(* posted events are handled between two passes, so that a pending timer     *)
(* may be served before or after the deletion.                               *)

\* init_timer: `self.countdown = 5`
CountdownStart == 5

\* the number of space-key presses the window is given
MaxPresses == 3

\* WelcomeWindow.__init__ and show(): init_timer starts the timer
WelcomeInit ==
    [countdown |-> CountdownStart, timer |-> TRUE, single_shots |-> 0,
     info_bars |-> 0, visible |-> TRUE, delete_later |-> FALSE,
     deleted |-> FALSE]

\* EyeTouchApp.__init__ and show_welcome_window: the welcome window is
\* referred to, there is no main window
AppInit == [welcome_window |-> TRUE, main_window |-> FALSE]

\* QObject.deleteLater
deleteLater(w) == [w EXCEPT !.delete_later = TRUE]

\* EyeTouchApp.show_main_window
show_main_window(a) == [a EXCEPT !.main_window = TRUE]

\* EyeTouchApp.on_welcome_closed: what it does to the welcome window
on_welcome_closed_window(w) ==
    IF app.welcome_window THEN deleteLater(w) ELSE w

\* EyeTouchApp.on_welcome_closed: the reference is dropped and
\* show_main_window creates a MainWindow
on_welcome_closed ==
    /\ app' = show_main_window([app EXCEPT !.welcome_window = FALSE])
    /\ main_windows' = main_windows + 1

\* WelcomeWindow.close_window on the window w: emit window_closed, which
\* runs on_welcome_closed, then close()
close_window(w) ==
    /\ window_closed' = window_closed + 1
    /\ on_welcome_closed
    /\ welcome_window' = [on_welcome_closed_window(w) EXCEPT !.visible = FALSE]

\* WelcomeWindow.update_countdown: the timer started by init_timer fires
update_countdown ==
    /\ ~welcome_window.deleted
    /\ welcome_window.timer
    /\ IF welcome_window.countdown > 0
       THEN /\ welcome_window' = [welcome_window EXCEPT !.countdown = @ - 1]
            /\ UNCHANGED <<app, window_closed, main_windows>>
       ELSE close_window([welcome_window EXCEPT !.timer = FALSE])
    /\ UNCHANGED <<clock, dwell, sel, test_results, run_results, in_since,
                   mgr_out, region_vars, track_vars>>

Keys == {"Key_Space", "Key_A"}

\* WelcomeWindow.keyPressEvent: a key press, which the window is given
\* while it is shown.  The space key stops the countdown timer, shows an
\* InfoBar and leaves one more pending QTimer.singleShot(500, close_window).
keyPressEvent ==
    \E key \in Keys :
        /\ ~welcome_window.deleted
        /\ welcome_window.visible
        /\ IF key = "Key_Space"
           THEN /\ welcome_window.single_shots < MaxPresses
                /\ welcome_window' =
                     [welcome_window EXCEPT !.timer = FALSE,
                                            !.info_bars = @ + 1,
                                            !.single_shots = @ + 1]
           ELSE UNCHANGED welcome_window
        /\ UNCHANGED <<app, window_closed, main_windows>>
        /\ UNCHANGED <<clock, dwell, sel, test_results, run_results,
                       in_since, mgr_out, region_vars, track_vars>>

\* a pending QTimer.singleShot(500, self.close_window) fires
single_shot_close_window ==
    /\ ~welcome_window.deleted
    /\ welcome_window.single_shots > 0
    /\ close_window([welcome_window EXCEPT !.single_shots = @ - 1])
    /\ UNCHANGED <<clock, dwell, sel, test_results, run_results, in_since,
                   mgr_out, region_vars, track_vars>>

\* show_info_bar: an InfoBar closes itself after `duration=2000`
info_bar_closes ==
    /\ ~welcome_window.deleted
    /\ welcome_window.info_bars > 0
    /\ welcome_window' = [welcome_window EXCEPT !.info_bars = @ - 1]
    /\ UNCHANGED <<app, window_closed, main_windows>>
    /\ UNCHANGED <<clock, dwell, sel, test_results, run_results, in_since,
                   mgr_out, region_vars, track_vars>>

\* the event loop carries out the deletion deleteLater() asked for: the
\* window, its timers and its children are gone
deferred_delete ==
    /\ welcome_window.delete_later
    /\ ~welcome_window.deleted
    /\ welcome_window' = [welcome_window EXCEPT !.deleted = TRUE,
                                                !.timer = FALSE,
                                                !.single_shots = 0,
                                                !.info_bars = 0]
    /\ UNCHANGED <<app, window_closed, main_windows>>
    /\ UNCHANGED <<clock, dwell, sel, test_results, run_results, in_since,
                   mgr_out, region_vars, track_vars>>

----------------------------------------------------------------------------
(* Specifications *)

\* the welcome window and the application object are not part of the run
NoWelcomePart ==
    /\ welcome_window = <<>>
    /\ app = <<>>
    /\ window_closed = 0
    /\ main_windows = 0

\* no get_test_statistics or export_results call was made
NoManagerCalls == stats = NoStats /\ csv_rows = NoFile

\* no EyeTrackingInterface or ControlPanelWidget takes part
NoTrackPart ==
    /\ eye_tracker = <<>>
    /\ loops = <<>>
    /\ control_panel = <<>>
    /\ status = ""

\* no RegionManager or RegionGridWidget takes part
NoRegionPart ==
    /\ region_manager = <<>>
    /\ widget = <<>>
    /\ signals = <<>>
    /\ open_region = NoRegion
    /\ resolved = <<>>

InitDwell ==
    /\ NoWelcomePart
    /\ clock = 1
    /\ \E target \in RegionValues, dt \in DwellTimes :
           dwell = DwellInit(target, dt)
    /\ sel = SelIdle
    /\ test_results = <<>>
    /\ run_results = 0
    /\ in_since = None
    /\ NoManagerCalls
    /\ NoRegionPart
    /\ NoTrackPart

NextDwell ==
    \/ dwell_start_test
    \/ dwell_stop_test
    \/ dwell_update_gaze_point
    \/ dwell_update_progress
    \/ Advance

SpecDwell == InitDwell /\ [][NextDwell]_vars

\* start_test, called while the clock can still pass the timeout of the run
dwell_start_test_in_time ==
    /\ clock + TimeoutSeconds < MaxClock
    /\ dwell_start_test

\* a RegionDwellTest that is never stopped.  start_test starts update_timer
\* (every 10 ms, until stop_test), so update_progress keeps being called
\* while the test runs, and time.time() keeps advancing.
NextDwellLive ==
    \/ dwell_start_test_in_time
    \/ dwell_update_gaze_point
    \/ dwell_update_progress
    \/ Advance

SpecDwellLive ==
    /\ InitDwell
    /\ [][NextDwellLive]_vars
    /\ WF_vars(dwell_update_progress)
    /\ WF_vars(Advance)

\* InteractionTestManager(regions).create_target_selection_test(num_targets),
\* for the first k regions and every num_targets
InitSel ==
    /\ NoWelcomePart
    /\ clock = 1
    /\ dwell = DwellInit(regions[1], DefaultDwellTime)
    /\ \E k \in 0..NumRegions, num_targets \in 0..MaxTargets :
         \E target_sequence \in
                generate_target_sequence(SubSeq(regions, 1, k), num_targets) :
           sel = SelInit(SubSeq(regions, 1, k), num_targets, target_sequence)
    /\ test_results = <<>>
    /\ run_results = 0
    /\ in_since = None
    /\ NoManagerCalls
    /\ NoRegionPart
    /\ NoTrackPart

NextSel ==
    \/ sel_start_test
    \/ sel_stop_test
    \/ sel_update_gaze_point
    \/ Advance

SpecSel == InitSel /\ [][NextSel]_vars

\* the clock, where both tests run under one manager
AdvanceMgr ==
    /\ clock < MgrMaxClock
    /\ clock' = clock + MgrClockStep
    /\ UNCHANGED <<dwell, sel, test_results, run_results, in_since,
                   mgr_out, region_vars, track_vars, welcome_vars>>

\* manager = InteractionTestManager(regions), with one test of each kind
\* created by create_region_dwell_test and create_target_selection_test
InitMgr ==
    /\ NoWelcomePart
    /\ clock = 1
    /\ dwell = DwellInit(regions[1], DefaultDwellTime)
    /\ \E num_targets \in 0..MaxTargets :
         \E target_sequence \in generate_target_sequence(regions, num_targets) :
           sel = SelInit(regions, num_targets, target_sequence)
    /\ test_results = <<>>
    /\ run_results = 0
    /\ in_since = None
    /\ NoManagerCalls
    /\ NoRegionPart
    /\ NoTrackPart

NextMgr ==
    \/ dwell_start_test
    \/ dwell_stop_test
    \/ dwell_update_gaze_point
    \/ dwell_update_progress
    \/ sel_start_test
    \/ sel_stop_test
    \/ sel_update_gaze_point
    \/ AdvanceMgr

SpecMgr == InitMgr /\ [][NextMgr]_vars

\* the manager with a dwell test and a one-target selection test, run to
\* completion, and its get_test_statistics and export_results
InitStats ==
    /\ NoWelcomePart
    /\ clock = 1
    /\ dwell = DwellInit(regions[1], DefaultDwellTime)
    /\ \E target_sequence \in generate_target_sequence(regions, 1) :
           sel = SelInit(regions, 1, target_sequence)
    /\ test_results = <<>>
    /\ run_results = 0
    /\ in_since = None
    /\ NoManagerCalls
    /\ NoRegionPart
    /\ NoTrackPart

NextStats ==
    \/ dwell_start_test
    \/ dwell_update_gaze_point
    \/ dwell_update_progress
    \/ sel_start_test
    \/ sel_update_gaze_point
    \/ get_test_statistics
    \/ export_results
    \/ AdvanceMgr

SpecStats == InitStats /\ [][NextStats]_vars

\* no test and no manager takes part
NoTestPart ==
    /\ clock = 1
    /\ dwell = DwellInit(regions[1], DefaultDwellTime)
    /\ sel = SelIdle
    /\ test_results = <<>>
    /\ run_results = 0
    /\ in_since = None
    /\ NoManagerCalls

\* RegionManager(screen_width, screen_height, rows, cols) and a point to look
\* up in it
InitGrid ==
    /\ NoWelcomePart
    /\ NoTestPart
    /\ NoTrackPart
    /\ \E screen_width, screen_height \in 1..MaxScreen,
          rows \in 1..MaxRows, cols \in 1..MaxCols :
         region_manager =
             RegionManagerInit(screen_width, screen_height, rows, cols)
    /\ widget = <<>>
    /\ signals = <<>>
    /\ open_region = NoRegion
    /\ \E x, y \in Coordinates : resolved = NoCall(x, y)

NextGrid == resolve_point

SpecGrid == InitGrid /\ [][NextGrid]_vars

\* RegionGridWidget(RegionManager(...)) and the samples it is given
InitRegion ==
    /\ NoWelcomePart
    /\ NoTestPart
    /\ NoTrackPart
    /\ region_manager =
         RegionManagerInit(MaxScreen, MaxScreen, MaxRows, MaxRows)
    /\ widget = WidgetInit
    /\ signals = <<>>
    /\ open_region = NoRegion
    /\ resolved = <<>>

NextRegion ==
    \/ widget_update_gaze_point
    \/ AdvanceMgr

SpecRegion == InitRegion /\ [][NextRegion]_vars

\* MainWindow with its EyeTrackingInterface and ControlPanelWidget
InitTrack ==
    /\ NoWelcomePart
    /\ NoTestPart
    /\ NoRegionPart
    /\ eye_tracker = TrackerInit
    /\ loops = NoLoops
    /\ control_panel = ControlPanelInit
    /\ status = ""

NextTrack ==
    \/ toggle_tracking
    \/ add_calibration_point
    \/ clear_calibration
    \/ loop_while
    \/ loop_read
    \/ loop_wake

SpecTrack == InitTrack /\ [][NextTrack]_vars

\* EyeTouchApp.run: the application with its welcome window shown
InitWelcome ==
    /\ NoTestPart
    /\ NoRegionPart
    /\ NoTrackPart
    /\ welcome_window = WelcomeInit
    /\ app = AppInit
    /\ window_closed = 0
    /\ main_windows = 0

NextWelcome ==
    \/ update_countdown
    \/ keyPressEvent
    \/ single_shot_close_window
    \/ info_bar_closes
    \/ deferred_delete

SpecWelcome == InitWelcome /\ [][NextWelcome]_vars

----------------------------------------------------------------------------
(* Claims about RegionDwellTest, checked under SpecDwell *)

\* the results a step appends to the log
NewResults == SubSeq(test_results', Len(test_results) + 1, Len(test_results'))

NewSuccess == \E i \in 1..Len(NewResults) : NewResults[i].success
NewFailure == \E i \in 1..Len(NewResults) : ~NewResults[i].success

\* C1: on a tick of a running test that is in the target, a success result
\* with accuracy 1.0 is emitted and the test ends if now - dwell_start_time
\* >= dwell_time, and no success result is emitted if it is smaller.
C1_DwellSuccess ==
    [][(dwell_update_progress /\ dwell.test_active /\ dwell.is_in_target)
        => IF clock - dwell.dwell_start_time >= dwell.dwell_time
           THEN /\ NewResults # <<>>
                /\ NewResults[1].success
                /\ NewResults[1].accuracy = One
                /\ ~dwell'.test_active
           ELSE ~NewSuccess]_vars

\* C1 witness: the region stayed the target from entry, and the test
\* succeeded on the tick at which exactly dwell_time had elapsed.
C1_Witness ==
    /\ test_results # <<>>
    /\ test_results[Len(test_results)].success
    /\ test_results[Len(test_results)].accuracy = One
    /\ ~dwell.test_active
    /\ in_since = dwell.dwell_start_time
    /\ clock = test_results[Len(test_results)].timestamp
    /\ clock - dwell.dwell_start_time = dwell.dwell_time

\* C2: a success result is emitted only if, since the most recent
\* start_test, every delivered region was the target for at least dwell_time
\* up to the completing tick.
C2_NonCumulative ==
    [][NewSuccess => (in_since # None /\ clock - in_since >= dwell.dwell_time)]_vars

\* C3: a run (from one start_test on) adds at most one result to the log.
C3_OneResultPerRun == run_results <= 1

\* C4: on a tick where both the dwell condition and the timeout condition
\* hold, the test ends with a success result and no failure result.
C4_SuccessOverTimeout ==
    [][(/\ dwell_update_progress
        /\ dwell.test_active /\ dwell.is_in_target
        /\ clock - dwell.dwell_start_time >= dwell.dwell_time
        /\ clock - dwell.start_time > TimeoutSeconds)
        => (NewSuccess /\ ~NewFailure /\ ~dwell'.test_active)]_vars

\* C5: on a tick of a running test that does not succeed on it, exactly one
\* failure result with accuracy 0.0 is emitted and the test ends if
\* now - start_time > 30; no tick of a running test with now - start_time <= 30
\* emits a failure result.
C5_Timeout ==
    [][(dwell_update_progress /\ dwell.test_active)
        => /\ (clock - dwell.start_time > 30 /\ ~NewSuccess)
                => /\ Len(NewResults) = 1
                   /\ ~NewResults[1].success
                   /\ NewResults[1].accuracy = Zero
                   /\ ~dwell'.test_active
           /\ (clock - dwell.start_time <= 30) => ~NewFailure]_vars

\* C5 witness: a run that was never in the target has just failed by
\* timeout, on the first observed tick more than 30 seconds after its start.
C5_Witness ==
    /\ Len(test_results) = 1
    /\ ~test_results[1].success
    /\ test_results[1].accuracy = Zero
    /\ test_results[1].duration > 30
    /\ test_results[1].duration <= 30 + ClockStep
    /\ test_results[1].timestamp = clock
    /\ ~dwell.test_active
    /\ ~dwell.is_in_target

\* C6: start_test leaves the test active, not in the target and with no
\* dwell start time, whatever the state it is called in.
C6_StartClearsDwell ==
    [][dwell_start_test
        => /\ dwell'.test_active
           /\ ~dwell'.is_in_target
           /\ dwell'.dwell_start_time = None]_vars

----------------------------------------------------------------------------
(* Claims about TargetSelectionTest, checked under SpecSel *)

SelRunning == sel.test_active /\ sel.current_target_index < Len(sel.target_sequence)

\* C7: while the test is running, a delivered region that is None or whose id
\* differs from the current target's leaves the test and the log unchanged;
\* one whose id is the current target's is appended to selected_regions and
\* increments current_target_index by one.
C7_AdvanceOnlyOnMatch ==
    [][\A r \in RegionValues \cup {NoRegion} :
        (SelGazeStep(r) /\ SelRunning)
        => IF r = NoRegion
              \/ r.id # sel.target_sequence[sel.current_target_index + 1].id
           THEN UNCHANGED <<sel, test_results>>
           ELSE /\ sel'.selected_regions = Append(sel.selected_regions, r)
                /\ sel'.current_target_index = sel.current_target_index + 1]_vars

\* C7 witness: one target was matched, the next is still awaited.
C7_Witness ==
    /\ SelRunning
    /\ sel.current_target_index = 1
    /\ sel.selected_regions = <<sel.target_sequence[1]>>
    /\ Len(sel.target_sequence) = 2

\* C8: the step that brings current_target_index to the length of the target
\* sequence ends the test and logs one result with accuracy 1.0, success,
\* no target region and selected regions equal to the target sequence; no
\* other step logs a result.
C8_NaturalCompletion ==
    [][/\ (/\ sel'.current_target_index = sel.current_target_index + 1
           /\ sel'.current_target_index = Len(sel.target_sequence))
          => /\ ~sel'.test_active
             /\ Len(NewResults) = 1
             /\ NewResults[1].accuracy = One
             /\ NewResults[1].success
             /\ NewResults[1].target_region = NoRegion
             /\ NewResults[1].actual_regions = SelectedRegionsList
             /\ sel'.selected_regions = sel.target_sequence
       /\ NewResults # <<>>
          => /\ sel'.current_target_index = sel.current_target_index + 1
             /\ sel'.current_target_index = Len(sel.target_sequence)]_vars

\* C8 witness: a two-target test has just completed.
C8_Witness ==
    /\ Len(test_results) = 1
    /\ test_results[1].success
    /\ Len(sel.target_sequence) = 2
    /\ ActualRegions(test_results[1]) = sel.target_sequence
    /\ ~sel.test_active

\* C9: the test is never active with current_target_index equal to the
\* length of the target sequence.
C9_NeverRunningAtEnd ==
    ~(sel.test_active /\ sel.current_target_index = Len(sel.target_sequence))

IsCandidate(r, rs) == \E i \in 1..Len(rs) : rs[i] = r

\* C10: the target sequence has length min(num_targets, len(regions)), its
\* elements are candidate regions with pairwise distinct ids, and no step
\* changes it.
C10_TargetSequence ==
    /\ [](/\ Len(sel.target_sequence) = Min(sel.num_targets, Len(sel.regions))
          /\ \A i \in 1..Len(sel.target_sequence) :
                 IsCandidate(sel.target_sequence[i], sel.regions)
          /\ \A i, j \in 1..Len(sel.target_sequence) :
                 i # j => sel.target_sequence[i].id # sel.target_sequence[j].id)
    /\ [][sel'.target_sequence = sel.target_sequence]_vars

\* C10 witness: a clamped sequence of two regions, in a test started again
\* after a completed run.
C10_Witness ==
    /\ sel.num_targets > Len(sel.regions)
    /\ Len(sel.target_sequence) = 2
    /\ Len(test_results) = 1
    /\ sel.test_active
    /\ sel.start_time > test_results[1].timestamp

----------------------------------------------------------------------------
(* Claims about the result log *)

\* C11: no step removes, moves or changes a logged result, the contents of
\* its actual_regions list included.
C11_LogImmutable ==
    [][\A i \in 1..Len(test_results) :
        /\ i <= Len(test_results')
        /\ test_results'[i] = test_results[i]
        /\ test_results[i].actual_regions.ref = "selected_regions"
              => sel'.selected_regions = sel.selected_regions]_vars

\* C12: the dwell test and the selection test of one manager are never both
\* active.
C12_SingleActiveTest == ~(dwell.test_active /\ sel.test_active)

HasKeys(d, ks) == d.returned /\ ks \subseteq d.keys

\* C17: get_test_statistics on an empty log returns the four fields, all 0.
C17_EmptyStatistics ==
    [][(get_test_statistics /\ test_results = <<>>)
        => /\ HasKeys(stats', {"total_tests", "success_rate",
                               "average_accuracy", "average_duration"})
           /\ stats'.total_tests = 0
           /\ stats'.success_rate = Zero
           /\ stats'.average_accuracy = Zero
           /\ stats'.average_duration = Zero]_vars

\* the sum of f over the log, by index
RECURSIVE SumTo(_, _, _)
SumTo(f(_), log, n) == IF n = 0 THEN 0 ELSE f(log[n]) + SumTo(f, log, n - 1)

SuccessAsInt(r) == IF r.success THEN 1 ELSE 0
DurationOf(r) == r.duration
\* accuracies are i/n for one n per result; a common denominator of all is
\* the product of the denominators
RECURSIVE DenProduct(_, _)
DenProduct(log, n) == IF n = 0 THEN 1 ELSE log[n].accuracy.den * DenProduct(log, n - 1)

\* a ratio q equals n / d
RatioIs(q, n, d) == q.num * d = n * q.den

\* C18: get_test_statistics on a non-empty log returns total_tests = the
\* length of the log, success_rate = successes / total, average_accuracy and
\* average_duration = the sums over the whole log / total, and leaves the
\* log unchanged.
C18_Statistics ==
    [][(get_test_statistics /\ test_results # <<>>)
        => LET n == Len(test_results)
               dp == DenProduct(test_results, n)
               AccuracyScaled(r) == r.accuracy.num * (dp \div r.accuracy.den)
           IN /\ stats'.total_tests = n
              /\ RatioIs(stats'.success_rate,
                         SumTo(SuccessAsInt, test_results, n), n)
              /\ RatioIs(stats'.average_accuracy,
                         SumTo(AccuracyScaled, test_results, n), dp * n)
              /\ RatioIs(stats'.average_duration,
                         SumTo(DurationOf, test_results, n), n)
              /\ test_results' = test_results]_vars

\* C18 witness: statistics of a log of one success and one failure.
C18_Witness ==
    /\ Len(test_results) = 2
    /\ test_results[1].success # test_results[2].success
    /\ HasKeys(stats, StatisticsKeys)
    /\ stats.total_tests = 2
    /\ stats.success_rate = Ratio(1, 2)
    /\ stats.average_accuracy = Ratio(1, 2)

\* C19: every step keeps the log as a prefix of the new log, so the log
\* is in completion order; export_results writes one row per logged result,
\* in log order, with its kind label, success, duration, accuracy and
\* timestamp, and leaves the log unchanged.
C19_LogAndExportOrder ==
    /\ [][SubSeq(test_results', 1, Len(test_results)) = test_results]_vars
    /\ [](\A i, j \in 1..Len(test_results) :
             i < j => test_results[i].timestamp <= test_results[j].timestamp)
    /\ [][export_results
           => /\ Len(csv_rows'.rows) = Len(test_results)
              /\ \A i \in 1..Len(test_results) :
                   LET row == csv_rows'.rows[i]
                       r == test_results[i]
                   IN /\ row.test_type = TestTypeValue(r.test_type)
                      /\ row.success = (IF r.success THEN "True" ELSE "False")
                      /\ row.duration = PyStrFloat(r.duration)
                      /\ row.accuracy = PyStrFloat(r.accuracy)
                      /\ row.timestamp = PyStrFloat(r.timestamp)
              /\ test_results' = test_results]_vars

\* C19 witness: an exported file of two rows of different kinds, completed
\* at different times, for the log as it is.
C19_Witness ==
    /\ Len(test_results) = 2
    /\ test_results[1].test_type # test_results[2].test_type
    /\ test_results[1].timestamp < test_results[2].timestamp
    /\ csv_rows.written
    /\ Len(csv_rows.rows) = 2
    /\ csv_rows.rows[1].test_type = TestTypeValue(test_results[1].test_type)
    /\ csv_rows.rows[2].test_type = TestTypeValue(test_results[2].test_type)

\* C20: a test that is not active emits nothing on a region delivery or a
\* tick, and only start_test makes a test active; so after stop_test and
\* before a later start_test nothing is logged for it.
C20_AbortedEmitsNothing ==
    /\ [][((dwell_update_gaze_point \/ dwell_update_progress)
             /\ ~dwell.test_active)
           => test_results' = test_results /\ ~dwell'.test_active]_vars
    /\ [][(sel_update_gaze_point /\ ~sel.test_active)
           => test_results' = test_results /\ ~sel'.test_active]_vars
    /\ [][(dwell_stop_test \/ sel_stop_test)
           => test_results' = test_results]_vars

\* C20 witness: both tests were stopped while running, the dwell test in
\* the target; dwell time and timeout have passed and nothing is logged.
C20_Witness ==
    /\ test_results = <<>>
    /\ ~dwell.test_active /\ dwell.is_in_target
    /\ clock - dwell.dwell_start_time >= dwell.dwell_time
    /\ clock - dwell.start_time > TimeoutSeconds
    /\ ~sel.test_active /\ Truthy(sel.start_time)
    /\ sel.current_target_index < Len(sel.target_sequence)
    /\ sel.current_target_index = 1

----------------------------------------------------------------------------
(* Claims about RegionManager.get_region_by_point, checked under SpecGrid *)

\* the point of the call, as floats
ResolvedX == FromInt(resolved.x)
ResolvedY == FromInt(resolved.y)

\* the point of the call is on the screen
InBounds ==
    /\ 0 <= resolved.x /\ resolved.x <= region_manager.screen_width
    /\ 0 <= resolved.y /\ resolved.y <= region_manager.screen_height

\* the regions whose closed rectangle contains the point of the call
Containing ==
    {k \in 1..Len(region_manager.regions) :
        RegionContains(region_manager.regions[k], ResolvedX, ResolvedY)}

\* C15: get_region_by_point(x, y) returns a region exactly when
\* 0 <= x <= screen_width and 0 <= y <= screen_height, and the closed
\* rectangle of the region it returns contains (x, y).
C15_ResolveInBounds ==
    resolved.called =>
        /\ (resolved.result # NoRegion) <=> InBounds
        /\ resolved.result # NoRegion =>
              RegionContains(resolved.result, ResolvedX, ResolvedY)

\* C16: when several regions contain the point, get_region_by_point returns
\* the one of the smallest id, which is the first of them in creation order.
C16_FirstMatchWins ==
    (resolved.called /\ Containing # {}) =>
        /\ resolved.result # NoRegion
        /\ \E k \in Containing :
              /\ resolved.result = region_manager.regions[k]
              /\ \A j \in Containing :
                    /\ k <= j
                    /\ resolved.result.id <= region_manager.regions[j].id

\* C16 witness: the point is a corner shared by four regions and the call
\* returned the region of id 0.
C16_Witness ==
    /\ resolved.called
    /\ Cardinality(Containing) = 4
    /\ resolved.result # NoRegion
    /\ resolved.result.id = 0

----------------------------------------------------------------------------
(* Claims about RegionManager.update_current_region and
   RegionGridWidget.update_gaze_point, checked under SpecRegion *)

\* the sample the step delivered: update_gaze_point leaves it in
\* current_gaze_point whether it was new or not
Delivered == widget'.current_gaze_point

\* the step delivered the sample that the widget was given last
StaleDelivery == Delivered = widget.current_gaze_point

\* the region the delivered sample is in
DeliveredRegion == ResolveTable[Delivered.screen_x, Delivered.screen_y]

\* the step appended one entry to region_history
HistoryAppended ==
    /\ Len(region_manager'.region_history)
         = Len(region_manager.region_history) + 1
    /\ SubSeq(region_manager'.region_history, 1,
              Len(region_manager.region_history))
         = region_manager.region_history

\* C13: a new gaze sample changes the current region and appends one history
\* entry (the new region, the current time) exactly when the region it is in
\* differs from the current region, and signals are emitted only then; the
\* sample that was delivered last appends nothing, changes nothing and emits
\* no region_entered or region_exited.
C13_TransitionOnlyOnChange ==
    /\ [][(widget_update_gaze_point /\ ~StaleDelivery
              /\ Delivered # NoGazePoint)
           => IF DeliveredRegion # region_manager.current_region
              THEN /\ region_manager'.current_region = DeliveredRegion
                   /\ HistoryAppended
                   /\ region_manager'.region_history[
                          Len(region_manager'.region_history)]
                        = [region |-> DeliveredRegion, timestamp |-> clock]
                   /\ signals' # <<>>
              ELSE /\ region_manager' = region_manager
                   /\ signals' = <<>>]_vars
    /\ [][(widget_update_gaze_point /\ StaleDelivery)
           => /\ region_manager' = region_manager
              /\ widget' = widget
              /\ signals' = <<>>]_vars

\* C13 witness: the current region changed twice (into region 0, then into
\* another region, announced by both signals at the time), and after that
\* the same sample was delivered again at a later time: nothing was emitted
\* and the history still ends with the entry of the second change.
C13_Witness ==
    /\ Len(region_manager.region_history) = 2
    /\ region_manager.region_history[1].region # NoRegion
    /\ region_manager.region_history[1].region.id = 0
    /\ region_manager.current_region # NoRegion
    /\ region_manager.current_region.id # 0
    /\ region_manager.region_history[2].region
         = region_manager.current_region
    /\ widget.current_gaze_point # NoGazePoint
    /\ widget.current_gaze_point.timestamp
         = region_manager.region_history[2].timestamp
    /\ clock > widget.current_gaze_point.timestamp
    /\ signals = <<>>

\* C14: when no sample (None) is delivered while the current region is some
\* region R, the current region becomes None and an entry with region None
\* is appended to the history; when the current region is None already,
\* nothing is appended.
C14_NullSampleLeavesRegion ==
    [][(widget_update_gaze_point /\ Delivered = NoGazePoint)
       => IF region_manager.current_region # NoRegion
          THEN /\ region_manager'.current_region = NoRegion
               /\ HistoryAppended
               /\ region_manager'.region_history[
                      Len(region_manager'.region_history)].region = NoRegion
          ELSE region_manager'.region_history
                 = region_manager.region_history]_vars

----------------------------------------------------------------------------
(* Claims about completed tests, checked under SpecMgr *)

\* the dwell test emitted a result in its current run and is not active.  A
\* result of the run is one whose duration counts from the run's start_time;
\* a dwell result is emitted later than its run started, and a later run
\* starts no earlier than that, so no other run has this start_time.
DwellCompleted ==
    /\ ~dwell.test_active
    /\ \E i \in 1..Len(test_results) :
          /\ test_results[i].test_type = REGION_DWELL
          /\ test_results[i].timestamp - test_results[i].duration
               = dwell.start_time

\* the selection test matched its whole sequence in its current run
SelCompleted ==
    /\ ~sel.test_active
    /\ Len(sel.target_sequence) > 0
    /\ sel.current_target_index = Len(sel.target_sequence)

\* C21: once a dwell test or a selection test has completed, a region
\* delivery or a tick leaves all its fields unchanged and logs no result.
C21_CompletedIsTerminal ==
    /\ [][((dwell_update_gaze_point \/ dwell_update_progress)
             /\ DwellCompleted)
           => dwell' = dwell /\ test_results' = test_results]_vars
    /\ [][(sel_update_gaze_point /\ SelCompleted)
           => sel' = sel /\ test_results' = test_results]_vars

\* C21 witness: the dwell test entered its target during the run and timed
\* out, and a region other than the target was delivered after that
\* (in_since is None) without changing is_in_target; the selection test has
\* completed too.
C21_Witness ==
    /\ DwellCompleted
    /\ dwell.is_in_target
    /\ dwell.dwell_start_time > dwell.start_time
    /\ in_since = None
    /\ SelCompleted
    /\ Len(test_results) = 2

----------------------------------------------------------------------------
(* Claims about the results of RegionDwellTest, checked under SpecDwell *)

\* C22: every logged dwell result has the dwell kind and the test's target
\* as target_region; a success has accuracy 1.0 and actual_regions =
\* [target_region], a failure has accuracy 0.0 and actual_regions = [].
C22_DwellResultConsistent ==
    \A i \in 1..Len(test_results) :
        LET r == test_results[i] IN
        /\ r.test_type = REGION_DWELL
        /\ r.target_region = dwell.target_region
        /\ r.success => /\ r.accuracy = One
                        /\ ActualRegions(r) = <<dwell.target_region>>
        /\ ~r.success => /\ r.accuracy = Zero
                         /\ ActualRegions(r) = <<>>

\* C22 witness: the log holds a success and a failure.
C22_Witness ==
    /\ Len(test_results) = 2
    /\ test_results[1].success
    /\ ~test_results[2].success

----------------------------------------------------------------------------
(* Claims about the progress of TargetSelectionTest, checked under SpecSel *)

\* C23: start_test leaves current_target_index = 0, selected_regions empty
\* and the test active, whatever the fields were before.
C23_StartResetsProgress ==
    [][sel_start_test
       => /\ sel'.current_target_index = 0
          /\ sel'.selected_regions = <<>>
          /\ sel'.test_active]_vars

\* C23 witness: a run that matched two targets was logged, and the test was
\* started again: it is active at index 0 with nothing selected.
C23_Witness ==
    /\ Len(test_results) = 1
    /\ test_results[1].accuracy = One
    /\ Len(sel.target_sequence) = 2
    /\ sel.test_active
    /\ sel.current_target_index = 0
    /\ sel.selected_regions = <<>>

----------------------------------------------------------------------------
(* Claims about the signals of RegionGridWidget, checked under SpecRegion *)

\* C24: when a call changes the current region from A to B, it emits
\* region_exited(A) if A is a region and then region_entered(B) if B is a
\* region, in that order, and nothing otherwise; so the region of the last
\* region_entered that its region_exited did not follow is always the
\* current region (none when the current region is None).
C24_SignalsMirrorRegion ==
    /\ [][widget_update_gaze_point
           => LET A == region_manager.current_region
                  B == region_manager'.current_region
              IN signals' =
                   IF A = B THEN <<>>
                   ELSE (IF A # NoRegion THEN <<region_exited(A)>> ELSE <<>>)
                        \o (IF B # NoRegion THEN <<region_entered(B)>>
                            ELSE <<>>)]_vars
    /\ [](open_region = region_manager.current_region)

\* C24 witness: the last call changed the current region from one region to
\* another and emitted both signals.
C24_Witness ==
    /\ Len(signals) = 2
    /\ signals[1].signal = "region_exited"
    /\ signals[2].signal = "region_entered"
    /\ signals[1].region # signals[2].region
    /\ region_manager.current_region = signals[2].region
    /\ Len(region_manager.region_history) = 2

----------------------------------------------------------------------------
(* Claims about RegionManager.region_history, checked under SpecRegion *)

\* C29: when region_history is not empty the region of its last entry is
\* current_region; no two consecutive entries have the same region; every
\* step keeps the history as a prefix of the new history.
C29_HistoryInvariant ==
    /\ [](LET h == region_manager.region_history IN
            /\ h # <<>> => h[Len(h)].region = region_manager.current_region
            /\ \A i \in 1..(Len(h) - 1) : h[i].region # h[i + 1].region)
    /\ [][SubSeq(region_manager'.region_history, 1,
                 Len(region_manager.region_history))
           = region_manager.region_history]_vars

\* C29 witness: the history holds the entry into a region and the exit to
\* no region that followed it.
C29_Witness ==
    /\ Len(region_manager.region_history) = 2
    /\ region_manager.region_history[1].region # NoRegion
    /\ region_manager.region_history[2].region = NoRegion
    /\ region_manager.current_region = NoRegion

----------------------------------------------------------------------------
(* Claims about repeated deliveries and progress of TargetSelectionTest,
   checked under SpecSel *)

\* the region that matched last
LastSelected(t) == t.selected_regions[Len(t.selected_regions)]

\* C27: delivering the region that matched last once more changes no field
\* and logs nothing, and no step advances current_target_index on the region
\* that the advance before it was made on; so one visit of a region, delivered
\* on every sample, takes one step of the sequence.
C27_RepeatDoesNotAdvance ==
    /\ []((sel.current_target_index > 0 /\ sel.selected_regions # <<>>)
           => /\ SelGaze(sel, LastSelected(sel)) = sel
              /\ SelGazeEmits(sel, LastSelected(sel), clock) = <<>>)
    /\ [][(/\ sel_update_gaze_point
            /\ sel'.current_target_index = sel.current_target_index + 1
            /\ sel.current_target_index > 0)
           => LastSelected(sel') # LastSelected(sel)]_vars

\* C27 witness: the test matched its first target some time ago and still
\* waits for the second, a different region.
C27_Witness ==
    /\ SelRunning
    /\ sel.current_target_index = 1
    /\ Len(sel.target_sequence) = 2
    /\ LastSelected(sel) = sel.target_sequence[1]
    /\ sel.target_sequence[2] # LastSelected(sel)
    /\ clock > sel.start_time

\* C28: current_target_index is the length of selected_regions, lies in
\* 0..len(target_sequence), and selected_regions has the ids of the first
\* current_target_index targets, in order.
C28_ProgressInvariant ==
    /\ sel.current_target_index = Len(sel.selected_regions)
    /\ 0 <= sel.current_target_index
    /\ sel.current_target_index <= Len(sel.target_sequence)
    /\ \A i \in 1..Len(sel.selected_regions) :
          /\ i <= Len(sel.target_sequence)
          /\ sel.selected_regions[i].id = sel.target_sequence[i].id

\* C28 witness: a test of two targets was started twice and matched both
\* targets in each run.
C28_Witness ==
    /\ Len(test_results) = 2
    /\ Len(sel.target_sequence) = 2
    /\ sel.current_target_index = 2
    /\ Len(sel.selected_regions) = 2
    /\ ~sel.test_active

----------------------------------------------------------------------------
(* Claims about termination of RegionDwellTest, checked under SpecDwellLive *)

\* C26: a dwell test that is active and is not stopped eventually is
\* inactive with a result of its run logged, whatever regions are delivered.
C26_DwellCompletes ==
    dwell.test_active ~> (~dwell.test_active /\ run_results >= 1)

\* C26 witness: a test that never entered its target was ended by the
\* timeout.
C26_Witness ==
    /\ ~dwell.test_active
    /\ ~dwell.is_in_target
    /\ dwell.dwell_start_time = None
    /\ run_results = 1
    /\ ~test_results[Len(test_results)].success
    /\ test_results[Len(test_results)].duration > TimeoutSeconds

----------------------------------------------------------------------------
(* Claims about starting and stopping the tracking, checked under SpecTrack *)

\* the tracker holds an opened capture
CapOpened(tr) == tr.cap # NoCap /\ tr.cap.opened

\* the step is a click that asks to start tracking
StartRequest == toggle_tracking /\ ~control_panel.is_tracking

\* C25: a start request finds no opened capture and a tracker that is not
\* running; when the capture is not opened after it (cv2.VideoCapture gave an
\* unopened capture, or raised), the failure is reported, no thread is
\* started and is_running is still false.
C25_InitFailureStartsNothing ==
    /\ [](~control_panel.is_tracking
            => ~CapOpened(eye_tracker) /\ ~eye_tracker.is_running)
    /\ [][(StartRequest /\ ~CapOpened(eye_tracker'))
           => /\ status' = "init_failed"
              /\ loops' = loops
              /\ ~eye_tracker'.is_running]_vars

\* C25 witness: the last start request failed on a capture that is not
\* opened; nothing runs.
C25_Witness ==
    /\ status = "init_failed"
    /\ control_panel.is_tracking
    /\ eye_tracker.cap # NoCap
    /\ ~eye_tracker.cap.opened
    /\ ~eye_tracker.is_running
    /\ LiveLoops = {}

\* the threads that passed the while test and are inside the loop
InsideLoop == {i \in Threads : loops[i] \in {"read", "sleep"}}

\* C30: at no time are two _tracking_loop threads inside the loop.
C30_SingleLoop == Cardinality(InsideLoop) <= 1

\* C31: ControlPanelWidget.is_tracking is true exactly when
\* EyeTrackingInterface.is_running is true.
C31_PanelAgreesWithTracker ==
    control_panel.is_tracking = eye_tracker.is_running

----------------------------------------------------------------------------
(* Claims about the welcome-to-main handoff, checked under SpecWelcome *)

\* C32: WelcomeWindow emits window_closed at most once and the application
\* creates no more than one MainWindow, exactly one once the signal was
\* emitted.
C32_HandoffOnce ==
    /\ window_closed <= 1
    /\ main_windows = window_closed

====
